---- MODULE Spec2Model ----
(***************************************************************************)
(* A model of source/js/lorenz-background.js: the Lorenz particle swarm,   *)
(* its projection into the two margin bands, the opacity mask, the spatial *)
(* hash, the connection renderer and the requestAnimationFrame loop.       *)
(*                                                                         *)
(* Numbers.  JavaScript numbers are modelled in fixed point:               *)
(*   - 3D coordinates, noise seeds, noise values and the normalised        *)
(*     fractions of projectToScreen are integers in hundredths, angles are *)
(*     integers in thousandths of a radian;                                *)
(*   - screen coordinates and the canvas geometry are integers in fifths  *)
(*     of a pixel;                                                       *)
(*   - an opacity is an exact fraction n/d together with the direction s   *)
(*     in which the Float32Array store rounds it;                          *)
(*   - wall-clock time and rAF timestamps are in thirds of a millisecond,  *)
(*     so that FRAME_INTERVAL = 1000/30 ms is the integer 100;             *)
(*   - the simulation time is in units of 0.0001.                          *)
(***************************************************************************)
EXTENDS Integers, Sequences, FiniteSets, TLC

(* ---------------------------------------------------------------- bounds *)

\* Particles of the model (CONFIG.particleCount is 80).
NumParticles == 3
\* Modulus of the generator that stands for Math.random().
RandMod == 16
\* Invocations of render the model follows.
MaxTicks == 5
\* Integration steps followed from a drawn 3D position.
MaxSteps == 2

\* Surface widths and heights (window.innerWidth / innerHeight), in pixels.
Widths == {0, 100, 200}
Heights == {100}
\* Gaps between two callbacks of requestAnimationFrame: 16.7 ms and 33.3 ms.
TickGaps == {50, 100}

(* ------------------------------------------------------------- constants *)

TARGET_FPS == 30
\* 1000 / TARGET_FPS milliseconds, in thirds of a millisecond.
FRAME_INTERVAL == 3000 \div TARGET_FPS
\* CONFIG.noiseSpeed = 0.0006, in units of 0.0001.
noiseSpeed == 6
connectionDistance == 70
connectionDistanceSq == 4900
cellSize == connectionDistance
\* The value of a missing argument: render() is called without a timestamp.
Undefined == -1

Indices == 0 .. (NumParticles - 1)

Abs(a) == IF a < 0 THEN -a ELSE a

\* a / b rounded to the nearest integer (b > 0).
RoundDiv(a, b) == (2 * a + b) \div (2 * b)

\* (a / b) | 0 : the quotient truncated toward zero (b > 0).
TruncDiv(a, b) == IF a >= 0 THEN a \div b ELSE -((-a) \div b)

(* ------------------------------------------------------------ Math.random *)

\* Math.random() is a deterministic generator with a hidden state; the call
\* returns s / RandMod in [0, 1) and moves the state on.
RandNext(s) == (5 * s + 3) % RandMod

\* Math.random() * scale, for the state s (scale in hundredths).
RandTimes(s, scale) == (s * scale) \div RandMod

(* ----------------------------------------------------------------- canvas *)

initCanvas(w, h) ==
    LET cx == (5 * w) \div 2
        mw == (5 * w * 32) \div 100
    IN  [width |-> 5 * w, height |-> 5 * h, centerX |-> cx, marginWidth |-> mw,
         fadeZone |-> (5 * w * 10) \div 100, marginInnerEdge |-> cx - mw]

(* -------------------------------------------------------------- particles *)

createParticle(side, s0) ==
    LET s1 == RandNext(s0)
        s2 == RandNext(s1)
        s3 == RandNext(s2)
        s4 == RandNext(s3)
        s5 == RandNext(s4)
        s6 == RandNext(s5)
        s7 == RandNext(s6)
    IN  [p |-> [x |-> RandTimes(s0, 3000) - 1500,
                y |-> RandTimes(s1, 3000) - 1500,
                z |-> RandTimes(s2, 3000) + 1000,
                screenX |-> 0,
                screenY |-> 0,
                noiseSeedX |-> RandTimes(s3, 10000),
                noiseSeedY |-> RandTimes(s4, 10000),
                size |-> 100 + RandTimes(s5, 250),
                brightness |-> 40 + RandTimes(s6, 60),
                colorType |-> IF 10 * s7 < 9 * RandMod THEN "grey" ELSE "terracotta",
                side |-> side,
                depthScale |-> 100],
         rng |-> RandNext(s7)]

RECURSIVE initParticlesFrom(_, _, _)
initParticlesFrom(i, ps, s) ==
    IF i = NumParticles THEN [particles |-> ps, rng |-> s]
    ELSE LET halfCount == NumParticles \div 2
             c == createParticle(IF i < halfCount THEN 0 ELSE 1, s)
         IN  initParticlesFrom(i + 1, [ps EXCEPT ![i] = c.p], c.rng)

\* new Array(count) filled by the two loops; new Float32Array(count) is zeros.
initParticles(s) ==
    initParticlesFrom(0, [i \in Indices |-> createParticle(0, s).p], s)

(* ----------------------------------------------------------------- Lorenz *)

\* The Euler step of updateLorenz, before the bounds test.
EulerStep(p) ==
    LET dx == RoundDiv(3 * (p.y - p.x), 100)
        dy == RoundDiv(3 * (RoundDiv(p.x * (2800 - p.z), 100) - p.y), 1000)
        dz == RoundDiv(3 * (RoundDiv(p.x * p.y, 100)
                            - RoundDiv(26667 * p.z, 10000)), 1000)
    IN  [p EXCEPT !.x = p.x + dx, !.y = p.y + dy, !.z = p.z + dz]

\* A faulty test that forgets p.z < 0; C4 tells it from the test of the source.
OutOfBoundsLoose(p) ==
    p.x < -5000 \/ p.x > 5000 \/ p.y < -5000 \/ p.y > 5000 \/ p.z > 8000

OutOfBounds(p) ==
    p.x < -5000 \/ p.x > 5000 \/ p.y < -5000 \/ p.y > 5000
        \/ p.z > 8000 \/ p.z < 0

\* updateLorenz(p) with the generator state s: the particle and the state after.
updateLorenz(p, s) ==
    LET q == EulerStep(p)
        s1 == RandNext(s)
        s2 == RandNext(s1)
    IN  IF OutOfBounds(q)
        THEN [p |-> [q EXCEPT !.x = RandTimes(s, 2000) - 1000,
                              !.y = RandTimes(s1, 2000) - 1000,
                              !.z = RandTimes(s2, 2000) + 1500],
              rng |-> RandNext(s2), reseeded |-> TRUE]
        ELSE [p |-> q, rng |-> s, reseeded |-> FALSE]

(* ------------------------------------------------------------------ noise *)

\* Math.sin(a) in hundredths, a in thousandths of a radian: the angle is
\* reduced to [0, 2 pi) and the half wave x in [0, pi] is the rational
\* 16 x (pi - x) / (5 pi^2 - 4 x (pi - x)), which is within 0.002 of the sine.
Sin(a) ==
    LET r == a % 6283
        x == IF r <= 3142 THEN r ELSE r - 3142
        P == x * (3142 - x)
        half == RoundDiv(1600 * (P \div 100), (49360820 - 4 * P) \div 100)
    IN  IF r <= 3142 THEN half ELSE -half

\* Math.cos(a) = Math.sin(a + pi / 2).
Cos(a) == Sin(a + 1571)

\* smoothNoise(x, y, t), x and y in hundredths, t in units of 0.0001.
smoothNoise(x, y, t) ==
    LET tm == t \div 10
    IN  RoundDiv(Sin(13 * x + tm) * Cos(9 * y + (7 * tm) \div 10) * 50, 10000)
        + RoundDiv(Sin(21 * x - tm \div 2) * Sin(17 * y + (3 * tm) \div 10) * 30, 10000)
        + RoundDiv(Cos(8 * x + 11 * y + (9 * tm) \div 10) * 20, 100)

(* -------------------------------------------------------------- projector *)

\* projectToScreen(p) at the simulation time t; the clamps are written as in
\* the source (first the near bound, else the far).
projectToScreen(p, g, t) ==
    LET noiseX == smoothNoise(p.noiseSeedX \div 2, p.noiseSeedY \div 2, t)
        noiseY == smoothNoise(p.noiseSeedY \div 2 + 5000, p.noiseSeedX \div 2 + 5000,
                              (t * 8) \div 10)
        normX == RoundDiv((p.x + 2500) * 2, 100)
        normY == RoundDiv((p.y + 2500) * 2, 100)
        normZ == RoundDiv(p.z * 2, 100)
        baseX == p.noiseSeedX % 100
        baseY == p.noiseSeedY % 100
        blendedX == RoundDiv(70 * baseX + 30 * normX, 100)
        blendedY == RoundDiv(70 * baseY + 30 * normY, 100)
        finalX == blendedX + RoundDiv(15 * noiseX, 100)
        finalY == blendedY + RoundDiv(20 * noiseY, 100)
        band == g.marginWidth + RoundDiv(g.width * 8, 100)
        spread == RoundDiv(finalX * g.marginWidth * 12, 1000)
        sx == IF p.side = 0
              THEN IF spread < -100 THEN -100
                   ELSE IF spread > band THEN band ELSE spread
              ELSE IF g.width - band + spread > g.width + 100 THEN g.width + 100
                   ELSE IF g.width - band + spread < g.width - band
                        THEN g.width - band
                        ELSE g.width - band + spread
        padding == RoundDiv(g.height * 2, 100)
        rawY == padding + RoundDiv(finalY * (g.height - padding * 2), 100)
        sy == IF rawY < -100 THEN -100
              ELSE IF rawY > g.height + 100 THEN g.height + 100 ELSE rawY
    IN  [p EXCEPT !.screenX = sx, !.screenY = sy,
                  !.depthScale = 70 + RoundDiv(30 * normZ, 100)]

\* The screen range projectToScreen confines a particle of a side to.
ScreenXLo(side, g) ==
    IF side = 0 THEN -100
    ELSE g.width - g.marginWidth - RoundDiv(g.width * 8, 100)

ScreenXHi(side, g) ==
    IF side = 0 THEN g.marginWidth + RoundDiv(g.width * 8, 100)
    ELSE g.width + 100

(* ---------------------------------------------------------------- opacity *)

\* A faulty mask that steps from 0 to 1 at the inner edge; C5 tells it from
\* calculateOpacity.
calculateOpacityNoRamp(screenX, g) ==
    IF Abs(screenX - g.centerX) < g.marginInnerEdge
    THEN [n |-> 0, d |-> 1]
    ELSE [n |-> 1, d |-> 1]

\* calculateOpacity(screenX): the fraction n/d it returns.
calculateOpacity(screenX, g) ==
    LET distFromCenter == IF screenX > g.centerX THEN screenX - g.centerX
                          ELSE g.centerX - screenX
        posInMargin == distFromCenter - g.marginInnerEdge
    IN  IF distFromCenter < g.marginInnerEdge THEN [n |-> 0, d |-> 1]
        ELSE IF posInMargin < g.fadeZone
             THEN [n |-> posInMargin, d |-> g.fadeZone]
             ELSE [n |-> 1, d |-> 1]

\* The remainder r of n/d after `bits` further binary digits, and the last digit.
RECURSIVE F32Digits(_, _, _, _)
F32Digits(r, d, bits, last) ==
    IF bits = 0 THEN [r |-> r, last |-> last]
    ELSE F32Digits((2 * r) % d, d, bits - 1, IF 2 * r >= d THEN 1 ELSE 0)

RECURSIVE F32Lead(_, _)
F32Lead(n, d) == IF n >= d THEN n ELSE F32Lead(2 * n, d)

\* The direction in which a Float32Array element rounds n/d (0 <= n/d <= 1):
\* -1 the stored value is below n/d, 0 it is n/d, +1 it is above.  A float32
\* keeps 24 binary digits, the leading one included, and rounds to nearest,
\* ties to the even digit.
F32Sign(n, d) ==
    IF n = 0 \/ n = d THEN 0
    ELSE LET t == F32Digits(F32Lead(n, d) - d, d, 23, 1)
         IN  IF t.r = 0 THEN 0
             ELSE IF 2 * t.r < d THEN -1
             ELSE IF 2 * t.r > d THEN 1
             ELSE IF t.last = 0 THEN -1 ELSE 1

\* opacities[i] = v : the store into the Float32Array.
ToFloat32(v) == [n |-> v.n, d |-> v.d, s |-> F32Sign(v.n, v.d)]

\* The Float32Array element a, read as a number, is below the literal 0.01.
\* (No float32 equals the double 0.01; the element nearest to 1/100 is below.)
BelowThreshold(a) == 100 * a.n < a.d \/ (100 * a.n = a.d /\ a.s <= 0)

\* The element a is above the literal 0.01.
AboveThreshold(a) == 100 * a.n > a.d \/ (100 * a.n = a.d /\ a.s > 0)

\* Math.min(a, b) of two elements.
MinOpacity(a, b) == IF a.n * b.d <= b.n * a.d THEN a ELSE b

(* ----------------------------------------------------------- spatial hash *)

\* (cellX << 16) | (cellY & 0xFFFF) as a signed 32-bit integer: the shift keeps
\* the low 16 bits of cellX, as a signed half, over 16 zero bits, which the
\* masked cellY fills.
CellKey(cellX, cellY) ==
    LET hi == cellX % 65536
        lo == cellY % 65536
    IN  (IF hi >= 32768 THEN hi - 65536 ELSE hi) * 65536 + lo

\* (p.screenX / cellSize) | 0 and (p.screenY / cellSize) | 0.
CellOf(p) ==
    [x |-> TruncDiv(p.screenX, 5 * cellSize), y |-> TruncDiv(p.screenY, 5 * cellSize)]

RECURSIVE buildSpatialHashFrom(_, _, _)
buildSpatialHashFrom(i, ps, hash) ==
    IF i = NumParticles THEN hash
    ELSE LET c == CellOf(ps[i])
             key == CellKey(c.x, c.y)
             cell == IF key \in DOMAIN hash THEN hash[key] ELSE <<>>
         IN  buildSpatialHashFrom(i + 1, ps,
                 [k \in DOMAIN hash \cup {key} |->
                     IF k = key THEN Append(cell, i) ELSE hash[k]])

\* buildSpatialHash(): the Map after clear() and the loop over the particles.
buildSpatialHash(ps) == buildSpatialHashFrom(0, ps, <<>>)

\* The cells getNearbyParticles visits, in the order of its two loops.
Offsets33 ==
    << <<-1, -1>>, <<-1, 0>>, <<-1, 1>>, <<0, -1>>, <<0, 0>>, <<0, 1>>,
       <<1, -1>>, <<1, 0>>, <<1, 1>> >>

Offsets23 ==
    << <<0, -1>>, <<0, 0>>, <<0, 1>>, <<1, -1>>, <<1, 0>>, <<1, 1>> >>

RECURSIVE NearbyFrom(_, _, _, _, _)
NearbyFrom(k, offsets, c, hash, buffer) ==
    IF k > Len(offsets) THEN buffer
    ELSE LET key == CellKey(c.x + offsets[k][1], c.y + offsets[k][2])
         IN  NearbyFrom(k + 1, offsets, c, hash,
                 IF key \in DOMAIN hash THEN buffer \o hash[key] ELSE buffer)

\* A faulty query of the own and the next column of cells only; C2 tells it
\* from getNearbyParticles.
getNearbyParticlesForward(p, hash) == NearbyFrom(1, Offsets23, CellOf(p), hash, <<>>)

\* getNearbyParticles(p, buffer): the buffer it returns.
getNearbyParticles(p, hash) == NearbyFrom(1, Offsets33, CellOf(p), hash, <<>>)

(* ------------------------------------------------------------ connections *)

RECURSIVE ISqrtIn(_, _, _)
ISqrtIn(n, lo, hi) ==
    IF lo >= hi THEN lo
    ELSE LET mid == (lo + hi + 1) \div 2
         IN  IF mid * mid <= n THEN ISqrtIn(n, mid, hi) ELSE ISqrtIn(n, lo, mid - 1)

\* Math.sqrt(distSq) in hundredths of a pixel, for distSq in squared fifths
\* (distSq < 25 * 4900).
SqrtHundredths(distSq) == ISqrtIn(distSq * 400, 0, 7000)

\* dx * dx + dy * dy < CONFIG.connectionDistanceSq.  The first two conjuncts
\* follow from the third; they keep the products small.
WithinDistance(dx, dy) ==
    /\ Abs(dx) < 5 * connectionDistance
    /\ Abs(dy) < 5 * connectionDistance
    /\ dx * dx + dy * dy < 25 * connectionDistanceSq

\* alpha >= 0.01, a test that also draws at alpha = 0.01; C6 tells it from
\* the test of the source.
AlphaNotBelowThreshold(distSq, m) ==
    LET L == 350 * m.n - 14 * m.d
        R == m.n * m.n * distSq
    IN  L >= 0 /\ (L * L > R \/ (L * L = R /\ m.s >= 0))

\* alpha > 0.01, for alpha = (1 - dist / 70) * 0.25 * m, the distance
\* dist = D / 5 and the element m = n/d rounded in the direction s: with
\* L = 350 n - 14 d the exact value exceeds 1/100 exactly when L > n D, that
\* is when L > 0 and L * L > n n distSq, and where the two are equal the
\* rounding of m decides (an m stored exactly gives alpha = 0.01).
AlphaAboveThreshold(distSq, m) ==
    LET L == 350 * m.n - 14 * m.d
        R == m.n * m.n * distSq
    IN  L > 0 /\ (L * L > R \/ (L * L = R /\ m.s > 0))

\* The alpha of a line, in units of 0.0001.
Alpha(distSq, a, b) ==
    LET m == MinOpacity(a, b)
    IN  ((7000 - SqrtHundredths(distSq)) * 2500 * m.n) \div (7000 * m.d)

\* A faulty loop body that skips only j = i; C3 tells it from ConnectPair.
ConnectPairBothWays(i, j, ps, ops, acc) ==
    IF j = i THEN acc
    ELSE IF ps[i].side # ps[j].side THEN acc
    ELSE IF BelowThreshold(ops[j]) THEN acc
    ELSE LET dx == ps[j].screenX - ps[i].screenX
             dy == ps[j].screenY - ps[i].screenY
         IN  IF WithinDistance(dx, dy)
                /\ AlphaAboveThreshold(dx * dx + dy * dy, MinOpacity(ops[i], ops[j]))
             THEN Append(acc, [i |-> i, j |-> j,
                               alpha |-> Alpha(dx * dx + dy * dy, ops[i], ops[j])])
             ELSE acc

\* One candidate j of the inner loop over nearby: the lines with it added.
ConnectPair(i, j, ps, ops, acc) ==
    IF j <= i THEN acc
    ELSE IF ps[i].side # ps[j].side THEN acc
    ELSE IF BelowThreshold(ops[j]) THEN acc
    ELSE LET dx == ps[j].screenX - ps[i].screenX
             dy == ps[j].screenY - ps[i].screenY
         IN  IF WithinDistance(dx, dy)
                /\ AlphaAboveThreshold(dx * dx + dy * dy, MinOpacity(ops[i], ops[j]))
             THEN Append(acc, [i |-> i, j |-> j,
                               alpha |-> Alpha(dx * dx + dy * dy, ops[i], ops[j])])
             ELSE acc

RECURSIVE ConnectNearby(_, _, _, _, _, _)
ConnectNearby(i, nearby, k, ps, ops, acc) ==
    IF k > Len(nearby) THEN acc
    ELSE ConnectNearby(i, nearby, k + 1, ps, ops,
                       ConnectPair(i, nearby[k], ps, ops, acc))

RECURSIVE DrawConnectionsFrom(_, _, _, _, _)
DrawConnectionsFrom(i, ps, ops, hash, acc) ==
    IF i = NumParticles THEN acc
    ELSE IF BelowThreshold(ops[i])
         THEN DrawConnectionsFrom(i + 1, ps, ops, hash, acc)
         ELSE DrawConnectionsFrom(i + 1, ps, ops, hash,
                  ConnectNearby(i, getNearbyParticles(ps[i], hash), 1, ps, ops, acc))

\* The "Draw connections" loop of render: the lines it strokes, in order.
DrawConnections(ps, ops, hash) == DrawConnectionsFrom(0, ps, ops, hash, <<>>)

RECURSIVE DrawParticlesFrom(_, _, _, _)
DrawParticlesFrom(i, ps, ops, acc) ==
    IF i = NumParticles THEN acc
    ELSE DrawParticlesFrom(i + 1, ps, ops,
             IF AboveThreshold(ops[i])
             THEN Append(acc, [i |-> i,
                               size |-> RoundDiv(ps[i].size * ps[i].depthScale * 4, 100)])
             ELSE acc)

\* The "Draw particles" loop of render: the sprites drawImage blits, in order.
DrawParticles(ps, ops) == DrawParticlesFrom(0, ps, ops, <<>>)

(* ------------------------------------------------------------------ state *)

VARIABLES
    pc,             \* "loading" before init() has run, "running" after
    docHidden,      \* document.hidden
    now,            \* the wall clock
    pending,        \* callbacks requestAnimationFrame holds
    isVisible, lastFrameTime, time,
    g,              \* width, height, centerX, marginWidth, fadeZone, marginInnerEdge
    particles, opacities, spatialHash,
    rng,            \* the state of Math.random()
    lines,          \* the connections stroked by the latest executed frame
    sprites,        \* the glow sprites blitted by the latest executed frame
    ticks,          \* invocations of render so far
    frames,         \* executed (active) frames so far
    branch,         \* the branch the latest invocation of render took
    frameAt,        \* the wall clock at the latest executed frame
    reseeds         \* particles reseeded by updateLorenz so far

vars == <<pc, docHidden, now, pending, isVisible, lastFrameTime, time, g,
          particles, opacities, spatialHash, rng, lines, sprites, ticks,
          frames, branch, frameAt, reseeds>>

simulation == <<time, lastFrameTime, particles, opacities, spatialHash, rng,
                lines, sprites, frames, frameAt, reseeds>>

(* ----------------------------------------------------------------- render *)

\* currentTime - lastFrameTime < FRAME_INTERVAL; with an undefined operand the
\* difference is NaN and the comparison is false.
Throttled(currentTime, last) ==
    /\ currentTime # Undefined
    /\ last # Undefined
    /\ currentTime - last < FRAME_INTERVAL

\* The branch render(currentTime) takes.
RenderBranch(visible, currentTime, last) ==
    IF ~visible THEN "hidden"
    ELSE IF Throttled(currentTime, last) THEN "throttled"
    ELSE "active"

\* A faulty render that does not reschedule on the hidden branch; C8 tells
\* it from render.
RescheduledUnlessHidden(b) == IF b = "hidden" THEN 0 ELSE 1

\* The calls of requestAnimationFrame(render) an invocation makes.
Rescheduled(b) == 1

\* A faulty increment proportional to the elapsed frame intervals; C10 tells
\* it from the fixed increment.
TimeStepElapsed(currentTime, last) ==
    IF currentTime = Undefined \/ last = Undefined THEN noiseSpeed
    ELSE noiseSpeed * ((currentTime - last) \div FRAME_INTERVAL)

\* time += CONFIG.noiseSpeed
TimeStep(currentTime, last) == noiseSpeed

\* The loop "Update particles and calculate opacities" up to the projection,
\* at the simulation time t.
RECURSIVE UpdateParticlesFrom(_, _, _, _, _, _)
UpdateParticlesFrom(i, ps, s, n, t, geom) ==
    IF i = NumParticles THEN [particles |-> ps, rng |-> s, reseeds |-> n]
    ELSE LET u == updateLorenz(ps[i], s)
             q == projectToScreen(u.p, geom, t)
         IN  UpdateParticlesFrom(i + 1, [ps EXCEPT ![i] = q], u.rng,
                                 IF u.reseeded THEN n + 1 ELSE n, t, geom)

\* opacities[i] = calculateOpacity(p.screenX) for every particle.
StoreOpacities(ps, geom) ==
    [i \in Indices |-> ToFloat32(calculateOpacity(ps[i].screenX, geom))]

\* The rest of an executed frame, from the projected particles on: the
\* opacities, buildSpatialHash(), the connections, the sprites.
DrawFrame(ps, geom) ==
    /\ opacities' = StoreOpacities(ps, geom)
    /\ spatialHash' = buildSpatialHash(ps)
    /\ lines' = DrawConnections(ps, opacities', spatialHash')
    /\ sprites' = DrawParticles(ps, opacities')

\* render(currentTime), called at the wall clock `at` with the particles ps0,
\* the opacities ops0, the generator state rng0 and the geometry geom.
render(currentTime, at, ps0, ops0, rng0, geom) ==
    LET b == RenderBranch(isVisible, currentTime, lastFrameTime)
    IN  /\ branch' = b
        /\ ticks' = ticks + 1
        /\ pending' = (IF pc = "running" THEN pending - 1 ELSE pending)
                      + Rescheduled(b)
        /\ IF b = "active"
           THEN /\ lastFrameTime' = currentTime
                /\ time' = time + TimeStep(currentTime, lastFrameTime)
                /\ \E u \in {UpdateParticlesFrom(0, ps0, rng0, reseeds, time', geom)} :
                       /\ particles' = u.particles
                       /\ rng' = u.rng
                       /\ reseeds' = u.reseeds
                       /\ DrawFrame(particles', geom)
                /\ frames' = frames + 1
                /\ frameAt' = at
           ELSE /\ particles' = ps0
                /\ opacities' = ops0
                /\ rng' = rng0
                /\ UNCHANGED <<time, lastFrameTime, spatialHash, lines, sprites,
                               frames, frameAt, reseeds>>

(* ---------------------------------------------------------------- actions *)

\* new Float32Array(count)
ZeroOpacities == [i \in Indices |-> [n |-> 0, d |-> 1, s |-> 0]]

\* init(): initCanvas, initSprites, initParticles, the two listeners, and the
\* first call render(), which has no argument.
init ==
    /\ pc = "loading"
    /\ pc' = "running"
    /\ \E w \in Widths, h \in Heights : g' = initCanvas(w, h)
    /\ LET c == initParticles(rng)
       IN  render(Undefined, now, c.particles, ZeroOpacities, c.rng, g')
    /\ UNCHANGED <<docHidden, now, isVisible>>

\* A callback of requestAnimationFrame runs render with the frame's timestamp.
Tick ==
    /\ pc = "running"
    /\ pending > 0
    /\ ticks < MaxTicks
    /\ \E gap \in TickGaps :
         /\ now' = now + gap
         /\ render(now', now', particles, opacities, rng, g)
    /\ UNCHANGED <<pc, docHidden, isVisible, g>>

\* handleResize(): initCanvas() and ctx.clearRect of the new surface.
handleResize ==
    /\ pc = "running"
    /\ \E w \in Widths, h \in Heights : g' = initCanvas(w, h)
    /\ UNCHANGED <<pc, docHidden, now, pending, isVisible, ticks, branch, simulation>>

\* The document becomes hidden or visible; handleVisibilityChange() is
\* registered by init() and sets isVisible = !document.hidden.
handleVisibilityChange ==
    /\ docHidden' = ~docHidden
    /\ isVisible' = IF pc = "running" THEN ~docHidden' ELSE isVisible
    /\ UNCHANGED <<pc, now, pending, g, ticks, branch, simulation>>

\* The script has run its declarations: no canvas geometry, no particles yet.
Init ==
    /\ pc = "loading"
    /\ docHidden \in BOOLEAN
    /\ now = 0
    /\ pending = 0
    /\ isVisible = TRUE
    /\ lastFrameTime = 0
    /\ time = 0
    /\ g = initCanvas(0, 0)
    /\ particles = <<>>
    /\ opacities = <<>>
    /\ spatialHash = <<>>
    /\ rng \in 0 .. (RandMod - 1)
    /\ lines = <<>>
    /\ sprites = <<>>
    /\ ticks = 0
    /\ frames = 0
    /\ branch = "none"
    /\ frameAt = 0
    /\ reseeds = 0

Next == init \/ Tick \/ handleResize \/ handleVisibilityChange

Spec == Init /\ [][Next]_vars

(* ------------------------------------------- the frame on drawn positions *)

\* Surfaces of the specifications that draw the screen positions.
GridWidths == {100}
\* A surface 65536 cells high (an embedded frame can be that high).
GiantHeights == {65536 * cellSize}
\* Screen coordinates drawn for a particle, those of its band's range, in
\* fifths of a pixel: the clamps, the fade zone (on the right the opacities
\* 0.2, 0.7 and 1), both sides of a cell boundary, and pairs 10, 56, 66,
\* 67.2 and 70 pixels apart.
SamplesX == {-100, 150, 350, 375, 390, 600}
SamplesY == {-100, 50, 180, 230, 236, 400}
\* Rows of the giant surface: the clamp, and the cells 1, 65535 and 65536.
GiantY == {-100, 5 * cellSize, 65535 * 5 * cellSize, 65536 * 5 * cellSize}
\* 3D coordinates drawn for a particle: the bounding box of updateLorenz.
SamplesXY == {-5000, -2500, 0, 2500, 5000}
SamplesZ == {0, 2000, 4000, 6000, 8000}

\* The sequences that take their k-th element from pts[k].
RECURSIVE Product(_, _)
Product(k, pts) ==
    IF k > Len(pts) THEN {<<>>}
    ELSE {<<pt>> \o rest : pt \in pts[k], rest \in Product(k + 1, pts)}

\* The particles of initParticles put at the screen positions pos.
Placed(ps, pos) ==
    [i \in Indices |-> [ps[i] EXCEPT !.screenX = pos[i + 1][1],
                                     !.screenY = pos[i + 1][2]]]

\* A running loop whose particles sit at the given screen positions.
InitPlaced(geom, pts) ==
    /\ pc = "running"
    /\ docHidden = FALSE
    /\ now = 0
    /\ pending = 1
    /\ isVisible = TRUE
    /\ lastFrameTime = Undefined
    /\ time = 0
    /\ g = geom
    /\ rng = 0
    /\ \E pos \in Product(1, pts) :
         particles = Placed(initParticles(0).particles, pos)
    /\ opacities = ZeroOpacities
    /\ spatialHash = <<>>
    /\ lines = <<>>
    /\ sprites = <<>>
    /\ ticks = 0
    /\ frames = 0
    /\ branch = "none"
    /\ frameAt = 0
    /\ reseeds = 0

SideOf(i) == IF i < NumParticles \div 2 THEN 0 ELSE 1

\* Every particle anywhere among the samples of its band.
SamplePoints(geom) ==
    [k \in 1 .. NumParticles |->
        {<<x, y>> : x \in {v \in SamplesX : /\ v >= ScreenXLo(SideOf(k - 1), geom)
                                             /\ v <= ScreenXHi(SideOf(k - 1), geom)},
                    y \in {v \in SamplesY : v <= geom.height + 100}}]

InitGrid ==
    \E w \in GridWidths, h \in Heights :
        InitPlaced(initCanvas(w, h), SamplePoints(initCanvas(w, h)))

\* On the giant surface: the first rows of cells and the rows 65535, 65536.
GiantPoints(geom) ==
    [k \in 1 .. NumParticles |->
        {<<x, y>> : x \in {ScreenXLo(SideOf(k - 1), geom),
                           ScreenXLo(SideOf(k - 1), geom) + 5 * cellSize},
                    y \in GiantY}]

InitGiant ==
    \E w \in GridWidths, h \in GiantHeights :
        InitPlaced(initCanvas(w, h), GiantPoints(initCanvas(w, h)))

\* The first two particles at any whole pixel in the range of their band,
\* the others at the corner of theirs.
BandPoints(geom) ==
    [k \in 1 .. NumParticles |->
        IF k <= 2
        THEN {<<x, 0>> : x \in {v \in ScreenXLo(SideOf(k - 1), geom)
                                     .. ScreenXHi(SideOf(k - 1), geom) : v % 5 = 0}}
        ELSE {<<ScreenXLo(SideOf(k - 1), geom), -100>>}]

InitBand ==
    \E w \in Widths, h \in Heights :
        InitPlaced(initCanvas(w, h), BandPoints(initCanvas(w, h)))

\* The second half of an executed frame on the placed particles: the
\* opacities, the spatial hash, the connections and the sprites.
Frame ==
    /\ ticks = 0
    /\ ticks' = 1
    /\ branch' = "active"
    /\ frames' = frames + 1
    /\ DrawFrame(particles, g)
    /\ UNCHANGED <<pc, docHidden, now, pending, isVisible, lastFrameTime, time,
                   g, particles, rng, frameAt, reseeds>>

SpecGrid == InitGrid /\ [][Frame]_vars

SpecGiant == InitGiant /\ [][Frame]_vars

SpecBand == InitBand /\ [][Frame]_vars

(* ------------------------------------------ the integrator on drawn points *)

\* The particles as created, the first of them put anywhere in the box.
InitLorenz ==
    /\ pc = "running"
    /\ docHidden = FALSE
    /\ now = 0
    /\ pending = 1
    /\ isVisible = TRUE
    /\ lastFrameTime = Undefined
    /\ time = 0
    /\ g = initCanvas(0, 0)
    /\ \E s \in 0 .. (RandMod - 1), x \in SamplesXY, y \in SamplesXY, z \in SamplesZ :
         LET c == initParticles(s)
         IN  /\ rng = c.rng
             /\ particles = [c.particles EXCEPT ![0].x = x, ![0].y = y, ![0].z = z]
    /\ opacities = ZeroOpacities
    /\ spatialHash = <<>>
    /\ lines = <<>>
    /\ sprites = <<>>
    /\ ticks = 0
    /\ frames = 0
    /\ branch = "none"
    /\ frameAt = 0
    /\ reseeds = 0

RECURSIVE IntegrateFrom(_, _, _, _)
IntegrateFrom(i, ps, s, n) ==
    IF i = NumParticles THEN [particles |-> ps, rng |-> s, reseeds |-> n]
    ELSE LET u == updateLorenz(ps[i], s)
         IN  IntegrateFrom(i + 1, [ps EXCEPT ![i] = u.p], u.rng,
                           IF u.reseeded THEN n + 1 ELSE n)

\* updateLorenz(p) for every particle, as the loop of render calls it.
Integrate ==
    /\ ticks < MaxSteps
    /\ ticks' = ticks + 1
    /\ LET u == IntegrateFrom(0, particles, rng, reseeds)
       IN  /\ particles' = u.particles
           /\ rng' = u.rng
           /\ reseeds' = u.reseeds
    /\ UNCHANGED <<pc, docHidden, now, pending, isVisible, lastFrameTime, time,
                   g, opacities, spatialHash, lines, sprites, frames, branch,
                   frameAt>>

SpecLorenz == InitLorenz /\ [][Integrate]_vars

(* ----------------------------------------------------------------- claims *)

Range(f) == {f[k] : k \in DOMAIN f}

DistFromCenter(i) == Abs(particles[i].screenX - g.centerX)

\* a <= b for two opacities, as fractions.
OpacityLeq(a, b) == a.n * b.d <= b.n * a.d

\* The squared connection distance, in squared fifths of a pixel.
C_ReachSq == 25 * connectionDistanceSq

\* The squared screen distance of two particles no more than a cell apart
\* in either direction, and a number above C_ReachSq for the others.
DistSq(i, j) ==
    LET dx == particles[j].screenX - particles[i].screenX
        dy == particles[j].screenY - particles[i].screenY
    IN  IF Abs(dx) > 5 * connectionDistance \/ Abs(dy) > 5 * connectionDistance
        THEN 2 * C_ReachSq
        ELSE dx * dx + dy * dy

\* C1: once the loop has executed a frame, a tick that arrives while the
\* loop is visible and less than FRAME_INTERVAL after the latest executed
\* frame takes the throttled-wait branch, so that two executed frames are
\* never less than FRAME_INTERVAL apart; the first executed frame is the one
\* of the call render() that init makes.
C1_Throttled ==
    [][(ticks' = ticks + 1 /\ frames >= 1)
        => /\ (isVisible /\ now' - frameAt < FRAME_INTERVAL) => branch' = "throttled"
           /\ frames' = frames + 1 => now' - frameAt >= FRAME_INTERVAL]_vars

\* C9: a tick takes the hidden branch whenever the document is hidden, from
\* startup on, and a tick of a visible document that comes at least one
\* frame interval after the latest executed frame is an active frame.
C9_SkipsWhenHidden ==
    [][ticks' = ticks + 1
        => /\ docHidden' => branch' = "hidden"
           /\ (~docHidden' /\ frames >= 1 /\ now' - frameAt >= FRAME_INTERVAL)
                => branch' = "active"]_vars

\* C8: once init has started the loop exactly one animation-frame callback
\* is pending between callbacks, whichever branch the invocations of render
\* took; before init none is.
C8_OnePending ==
    /\ pc = "running" => pending = 1
    /\ pc = "loading" => pending = 0

C8_Witness == pc = "running" /\ branch = "hidden" /\ ticks >= 2 /\ pending = 1

\* C10: a tick of the hidden or the throttled-wait branch leaves the
\* simulation time, lastFrameTime, the particles, the opacities, the spatial
\* index and what is drawn as they are; only an active tick changes them, it
\* advances the simulation time by 0.0006, and the simulation time is always
\* 0.0006 times the number of executed frames.
C10_FixedIncrement ==
    /\ [](time = noiseSpeed * frames)
    /\ [][(ticks' = ticks + 1 /\ branch' # "active")
            => UNCHANGED <<time, lastFrameTime, particles, opacities,
                           spatialHash, lines, sprites, frames>>]_vars
    /\ [][(<<time, lastFrameTime, particles, opacities, spatialHash, lines,
             sprites>>' # <<time, lastFrameTime, particles, opacities,
                            spatialHash, lines, sprites>>)
            => /\ ticks' = ticks + 1
               /\ branch' = "active"
               /\ frames' = frames + 1
               /\ time' = time + noiseSpeed]_vars

C10_Witness ==
    /\ branch = "throttled"
    /\ frames >= 2
    /\ ticks > frames
    /\ time = noiseSpeed * frames

\* C4: every particle, as created and after any number of steps of
\* updateLorenz, has -50 <= x <= 50, -50 <= y <= 50 and 0 <= z <= 80, and a
\* step whose Euler update leaves these bounds leaves the particle with
\* x, y in [-10, 10] and z in [15, 35].
C4_WithinBounds ==
    /\ [](\A i \in DOMAIN particles :
            /\ particles[i].x >= -5000 /\ particles[i].x <= 5000
            /\ particles[i].y >= -5000 /\ particles[i].y <= 5000
            /\ particles[i].z >= 0 /\ particles[i].z <= 8000)
    /\ [][\A i \in DOMAIN particles :
            LET q == EulerStep(particles[i])
            IN  (ticks' = ticks + 1
                 /\ (q.x < -5000 \/ q.x > 5000 \/ q.y < -5000 \/ q.y > 5000
                     \/ q.z < 0 \/ q.z > 8000))
                => /\ particles'[i].x >= -1000 /\ particles'[i].x <= 1000
                   /\ particles'[i].y >= -1000 /\ particles'[i].y <= 1000
                   /\ particles'[i].z >= 1500 /\ particles'[i].z <= 3500]_vars

C4_Witness ==
    /\ ticks >= 1
    /\ reseeds >= 1
    /\ \E i \in Indices : particles[i].z >= 1500 /\ particles[i].z <= 3500

\* C2: for every particle p and every other particle q within
\* connectionDistance of p (70 included) in the frame's screen positions, q
\* is among the candidates getNearbyParticles returns for p, whichever of
\* the two has the smaller index and whatever the signs of the coordinates.
C2_NearbyComplete ==
    ticks = 1 =>
        \A i, j \in Indices :
            (i # j /\ DistSq(i, j) <= C_ReachSq)
                => j \in Range(getNearbyParticles(particles[i], spatialHash))

C2_Witness ==
    /\ ticks = 1
    /\ \E i, j \in Indices :
        /\ i < j
        /\ DistSq(i, j) = C_ReachSq
        /\ CellOf(particles[i]) # CellOf(particles[j])
        /\ i \in Range(getNearbyParticles(particles[j], spatialHash))
    /\ \E i \in Indices : particles[i].screenX < 0 /\ particles[i].screenY < 0

\* C3: within one frame no unordered pair of particles gets more than one
\* line, in either order, no particle is joined to itself, and the two ends
\* of a line are on the same side.
C3_OncePerPair ==
    ticks = 1 =>
        /\ \A k \in DOMAIN lines :
            /\ lines[k].i # lines[k].j
            /\ particles[lines[k].i].side = particles[lines[k].j].side
        /\ \A k, l \in DOMAIN lines :
            k # l => {lines[k].i, lines[k].j} # {lines[l].i, lines[l].j}

C3_Witness ==
    /\ ticks = 1
    /\ \E k \in DOMAIN lines :
        CellOf(particles[lines[k].i]) # CellOf(particles[lines[k].j])
    /\ \E i, j \in Indices :
        /\ particles[i].side # particles[j].side
        /\ DistSq(i, j) < C_ReachSq
        /\ AboveThreshold(opacities[i])
        /\ AboveThreshold(opacities[j])

\* The opacity the claim C5 gives a particle at distance dist from the
\* centre line of the geometry geom.
C5_Claimed(dist, geom, a) ==
    /\ a.d > 0 /\ a.n >= 0 /\ a.n <= a.d
    /\ dist <= geom.marginInnerEdge => a.n = 0
    /\ dist >= geom.marginInnerEdge + geom.fadeZone => a.n = a.d
    /\ (dist > geom.marginInnerEdge /\ dist < geom.marginInnerEdge + geom.fadeZone)
        => a.n * geom.fadeZone = (dist - geom.marginInnerEdge) * a.d

C5_Example ==
    LET geom == [width |-> 200, height |-> 100, centerX |-> 0,
                 marginWidth |-> 0, fadeZone |-> 20, marginInnerEdge |-> 100]
    IN  /\ calculateOpacity(90, geom).n = 0
        /\ calculateOpacity(110, geom).n * 2 = calculateOpacity(110, geom).d
        /\ calculateOpacity(130, geom).n = calculateOpacity(130, geom).d

C5_Ramp ==
    /\ \A i \in Indices : C5_Claimed(DistFromCenter(i), g, opacities[i])
    /\ \A i, j \in Indices :
        DistFromCenter(i) <= DistFromCenter(j)
            => OpacityLeq(opacities[i], opacities[j])
    /\ C5_Example

\* C5, as stated: the opacity is in [0, 1], does not decrease with the
\* distance from the centre line, is 0 up to and at the inner edge of the
\* margin, 1 from the end of the fade zone on, and linear between the two
\* (inner edge 100, fade zone 20: 0 at 90, 0.5 at 110, 1 at 130).
C5_AsStated == ticks = 1 => C5_Ramp

\* C5, amended: the same for every surface of positive width; on a surface
\* of width 0, where the fade zone is empty and its two ends coincide, the
\* opacity is 1.
C5_PositiveWidth ==
    ticks = 1 =>
        /\ g.width > 0 => C5_Ramp
        /\ g.width = 0 => \A i \in Indices : opacities[i].n = opacities[i].d

C5_Witness ==
    /\ ticks = 1
    /\ g.width > 0
    /\ \E i, j \in Indices :
        /\ DistFromCenter(i) = g.marginInnerEdge /\ opacities[i].n = 0
        /\ opacities[j].n > 0 /\ opacities[j].n < opacities[j].d

\* The smaller of the two stored opacities of a pair.
C6_MinOpacity(i, j) ==
    IF OpacityLeq(opacities[i], opacities[j]) THEN opacities[i] ELSE opacities[j]

\* (1 - distance / 70) * 0.25 * min(opacity_i, opacity_j), in units of 0.0001.
C6_Alpha(i, j) ==
    LET m == C6_MinOpacity(i, j)
    IN  ((100 * connectionDistance - SqrtHundredths(DistSq(i, j))) * 2500 * m.n)
            \div (100 * connectionDistance * m.d)

\* The sign of alpha - 0.01: with D the distance in fifths and m = n/d the
\* smaller stored opacity, alpha - 0.01 has the sign of
\* (350 n - 14 d) - n D, and where this is 0 for the fraction n/d the sign
\* is the direction in which the stored value was rounded.
C6_AlphaSign(i, j) ==
    LET m == C6_MinOpacity(i, j)
        l == 350 * m.n - 14 * m.d
        r == m.n * m.n * DistSq(i, j)
    IN  IF l < 0 THEN -1
        ELSE IF l * l > r THEN 1
        ELSE IF l * l < r THEN -1
        ELSE m.s

C6_Near(i, j) ==
    /\ particles[i].side = particles[j].side
    /\ AboveThreshold(opacities[i])
    /\ AboveThreshold(opacities[j])
    /\ DistSq(i, j) < C_ReachSq

C6_HasLine(i, j) == \E k \in DOMAIN lines : {lines[k].i, lines[k].j} = {i, j}

\* What C6 says of every line, and its two examples.
C6_Lines ==
    /\ \A k \in DOMAIN lines :
        /\ lines[k].i # lines[k].j
        /\ lines[k].alpha = C6_Alpha(lines[k].i, lines[k].j)
    /\ \A i, j \in Indices :
        (/\ i < j
         /\ particles[i].side = particles[j].side
         /\ opacities[i].n = opacities[i].d
         /\ opacities[j].n = opacities[j].d)
            => /\ DistSq(i, j) = 2500
                    => \E k \in DOMAIN lines :
                            /\ {lines[k].i, lines[k].j} = {i, j}
                            /\ lines[k].alpha = 2142
               /\ DistSq(i, j) >= C_ReachSq => ~ C6_HasLine(i, j)

C7_KeysDistinct ==
    ticks = 1 =>
        \A i, j \in Indices :
            LET ci == CellOf(particles[i])
                cj == CellOf(particles[j])
            IN  /\ ci # cj => CellKey(ci.x, ci.y) # CellKey(cj.x, cj.y)
                /\ \A o \in Range(Offsets33) :
                    <<ci.x + o[1], ci.y + o[2]>> # <<cj.x, cj.y>>
                        => CellKey(ci.x + o[1], ci.y + o[2]) # CellKey(cj.x, cj.y)

====
